---- MODULE Spec2Model ----
(***************************************************************************)
(* A model of the S3 file cache of leukos/python_snippets:                 *)
(*   src/s3_cache/s3_cache.py   FileSystem, S3FileSystem, LocalFileSystem   *)
(*   src/s3_cache.py            S3FileCache, CachedCSVDataStream            *)
(*                                                                         *)
(* Strings are sequences of one-character strings, so that joining,        *)
(* separator replacement, suffixing and number formatting are computed.    *)
(* A remote step (head_object, download_file) is one action of a caller;   *)
(* between two steps the remote store may be changed by an external        *)
(* writer.  Fields of a caller's record named g_* are history (ghost)      *)
(* fields: the code does not hold them, the properties read them.          *)
(*                                                                         *)
(* Specifications:                                                         *)
(*   Spec       one caller, every operation, a disk that takes each write  *)
(*   SpecRace   two callers of one handle in get_file on one key           *)
(*   SpecDisk   one caller, one key, the metadata write may fail           *)
(*   SpecPaths  the key-to-path mapping of get_file over a set of keys     *)
(***************************************************************************)
EXTENDS Integers, Sequences, FiniteSets, TLC

VARIABLES
    cls,      \* the class of the handle: "S3FileSystem", "S3FileCache", "LocalFileSystem"
    clock,    \* the remote store's (and the disk's) clock, in whole seconds
    remote,   \* the bucket: key -> LastModified of the object, NoObject when there is none
    fs,       \* the files under cache_dir: local path -> content (its domain: the files that exist)
    dirs,     \* the directories that exist under (and including) cache_dir
    disk,     \* the files under LocalFileSystem.base_dir: local path -> [mtime, ctime]
    cs,       \* the callers: caller -> the record of its current / last call
    hist,     \* history: key -> the last completed get_file on it, while the object stays as it was
    downloaded \* history: the keys whose download_file has succeeded at least once

vars == <<cls, clock, remote, fs, dirs, disk, cs, hist, downloaded>>

----------------------------------------------------------------------------
(* Bounds *)

\* the clock stops here: at most MaxTime - 1 external writes in a behaviour
MaxTime == 2

\* rows of a downloaded CSV object
RowsPerFile == 2

\* the longest key (before a ".meta" ending) whose local paths are compared
MaxKeyLen == 3

----------------------------------------------------------------------------
(* Strings *)

DigitChars == <<"0", "1", "2", "3", "4", "5", "6", "7", "8", "9">>

DigitChar(d) == DigitChars[d + 1]

IsDigit(ch) == \E d \in 0..9 : DigitChars[d + 1] = ch

DigitVal(ch) == CHOOSE d \in 0..9 : DigitChars[d + 1] = ch

RECURSIVE Digits(_)
\* the decimal digits of a natural number, as str(int) writes them
Digits(n) == IF n < 10 THEN <<DigitChar(n)>> ELSE Digits(n \div 10) \o <<DigitChar(n % 10)>>

RECURSIVE ZeroPad(_, _)
\* %Y / %m / %d of strftime: the number, zero-padded to the width
ZeroPad(n, width) == IF width = 0 THEN <<>> ELSE ZeroPad(n \div 10, width - 1) \o <<DigitChar(n % 10)>>

RECURSIVE DigitsVal(_)
DigitsVal(s) == IF s = <<>> THEN 0 ELSE 10 * DigitsVal(SubSeq(s, 1, Len(s) - 1)) + DigitVal(s[Len(s)])

RECURSIVE JoinWith(_, _)
\* sep.join(parts)
JoinWith(sep, parts) ==
    IF parts = <<>> THEN <<>>
    ELSE IF Len(parts) = 1 THEN parts[1]
    ELSE parts[1] \o sep \o JoinWith(sep, Tail(parts))

\* s.replace(old, new) for a one-character old
Replace(s, old, new) == [i \in 1..Len(s) |-> IF s[i] = old THEN new ELSE s[i]]

EndsWith(s, suffix) ==
    /\ Len(s) >= Len(suffix)
    /\ SubSeq(s, Len(s) - Len(suffix) + 1, Len(s)) = suffix

Contains(s, ch) == \E i \in 1..Len(s) : s[i] = ch

LastIndexOf(s, ch) ==
    IF Contains(s, ch) THEN CHOOSE i \in 1..Len(s) : s[i] = ch /\ \A j \in (i + 1)..Len(s) : s[j] # ch
    ELSE 0

OsSep == "/"

MetaSuffix == <<".", "m", "e", "t", "a">>

CsvSuffix == <<".", "c", "s", "v">>

\* os.path.dirname
DirName(p) == SubSeq(p, 1, LastIndexOf(p, OsSep) - 1)

\* os.path.join(a, b) for a relative b
PathJoin(a, b) ==
    IF a = <<>> THEN b
    ELSE IF a[Len(a)] = OsSep THEN a \o b
    ELSE a \o <<OsSep>> \o b

----------------------------------------------------------------------------
(* Timestamps: LastModified has whole seconds; .timestamp() is a float *)

\* str(float) of a whole number of seconds: "3.0"
StrFloat(t) == Digits(t) \o <<".", "0">>

\* the digits before the point, or all of the text when it has no point
IntPart(s) ==
    IF Contains(s, ".")
    THEN SubSeq(s, 1, (CHOOSE i \in 1..Len(s) : s[i] = "." /\ \A j \in 1..(i - 1) : s[j] # ".") - 1)
    ELSE s

\* the texts float() reads here: digits, then nothing, "." or ".0" ("3", "3." and "3.0";
\* the empty text is a ValueError)
IsFloatText(s) ==
    /\ Len(IntPart(s)) >= 1
    /\ \A i \in 1..Len(IntPart(s)) : IsDigit(s[i])
    /\ SubSeq(s, Len(IntPart(s)) + 1, Len(s)) \in {<<>>, <<".">>, <<".", "0">>}

ParseFloat(s) == DigitsVal(IntPart(s))

----------------------------------------------------------------------------
(* Configuration and inputs *)

\* cache_dir='s3_cache'
CacheDir == <<"s", "3", "_", "c", "a", "c", "h", "e">>

\* the stream's base_folder, 'bucket-name/path/prefix'
BaseFolder == <<"b", "/", "a">>

Prefix == <<"p">>

Suffix == <<>>

\* base_folder.split('/', 1)[0], or all of it when it holds no '/'
BucketOf(base_folder) ==
    IF Contains(base_folder, "/")
    THEN SubSeq(base_folder, 1, (CHOOSE i \in 1..Len(base_folder) :
                                    base_folder[i] = "/" /\ \A j \in 1..(i - 1) : base_folder[j] # "/") - 1)
    ELSE base_folder

\* base_folder.split('/', 1)[1], with a '/' added unless it ends with one; '' without a '/'
PathPrefixOf(base_folder) ==
    IF Contains(base_folder, "/")
    THEN LET i == CHOOSE i \in 1..Len(base_folder) :
                      base_folder[i] = "/" /\ \A j \in 1..(i - 1) : base_folder[j] # "/"
             rest == SubSeq(base_folder, i + 1, Len(base_folder))
         IN IF EndsWith(rest, <<"/">>) THEN rest ELSE rest \o <<"/">>
    ELSE <<>>

\* the calendar dates asked for, <<year, month, day>>
Dates == {<<2024, 2, 28>>, <<2024, 2, 29>>, <<2024, 3, 1>>}

\* pd.to_datetime(date).strftime('%Y-%m-%d')
DateStr(date) == ZeroPad(date[1], 4) \o <<"-">> \o ZeroPad(date[2], 2) \o <<"-">> \o ZeroPad(date[3], 2)

\* CachedCSVDataStream._build_s3_key
BuildS3Key(date) == PathPrefixOf(BaseFolder) \o (Prefix \o DateStr(date) \o Suffix \o CsvSuffix)

\* the keys that callers ask for
Keys == {BuildS3Key(d) : d \in Dates}

\* the keys under which the external writer puts objects: nothing is ever stored for 2024-02-29
ObjectKeys == {BuildS3Key(d) : d \in {<<2024, 2, 28>>, <<2024, 3, 1>>}}

\* the ways to pass a key: whole, or as its first segment and the rest
CallForms ==
    {<<k, <<>>>> : k \in Keys}
    \cup {<<SubSeq(k, 1, LastIndexOf(k, "/") - 1), <<SubSeq(k, LastIndexOf(k, "/") + 1, Len(k))>>>> :
            k \in {x \in Keys : Contains(x, "/")}}

\* the lists of dates get_data_for_dates is called with
DateLists ==
    { <<>>,
      << <<2024, 2, 28>> >>,
      << <<2024, 2, 28>>, <<2024, 2, 29>>, <<2024, 3, 1>> >>,
      << <<2024, 3, 1>>, <<2024, 2, 28>> >> }

\* the (start_date, end_date) pairs get_data_for_range is called with
DateRanges ==
    { << <<2024, 2, 28>>, <<2024, 3, 1>> >>,
      << <<2024, 2, 29>>, <<2024, 3, 1>> >>,
      << <<2024, 2, 28>>, <<2024, 2, 28>> >>,
      << <<2024, 3, 1>>, <<2024, 2, 28>> >> }

\* non-404 error codes of the remote store
TransportCodes == {"403", "500"}

----------------------------------------------------------------------------
(* Values *)

NoObject == 0

\* what download_file writes: the object's bytes, here the key and the version (its LastModified)
Blob(key, ver) == [kind |-> "blob", key |-> key, ver |-> ver, text |-> <<>>]

\* what f.write(str) writes
Text(s) == [kind |-> "text", key |-> <<>>, ver |-> 0, text |-> s]

\* the function f with f[k] = v
Put(f, k, v) == [x \in (DOMAIN f) \cup {k} |-> IF x = k THEN v ELSE f[x]]

NoExc == [type |-> "", code |-> "", key |-> <<>>]

\* FileNotFoundError(f"Object {full_path} not found in S3")
NotFoundError(full_path) == [type |-> "FileNotFoundError", code |-> "404", key |-> full_path]

\* botocore's ClientError with a non-404 code
ClientError(code) == [type |-> "ClientError", code |-> code, key |-> <<>>]

\* the FileNotFoundError (ENOENT) of open() on a path whose directory is missing
OSNotFound(path) == [type |-> "FileNotFoundError", code |-> "ENOENT", key |-> path]

\* the OSError of a write that the disk refuses (no space, an I/O error)
OSWriteError(path) == [type |-> "OSError", code |-> "ENOSPC", key |-> path]

TypeError == [type |-> "TypeError", code |-> "", key |-> <<>>]

ValueError == [type |-> "ValueError", code |-> "", key |-> <<>>]

NoResult == [kind |-> "none", val |-> <<>>, exc |-> NoExc]

Returned(v) == [kind |-> "return", val |-> v, exc |-> NoExc]

Raised(e) == [kind |-> "raise", val |-> <<>>, exc |-> e]

NoHist == [fresh |-> FALSE, path |-> <<>>, params |-> <<>>]

\* a caller that has not called anything yet
IdleCaller ==
    [op |-> "none", pc |-> "idle", path |-> <<>>, params |-> <<>>,
     full_path |-> <<>>, local_path |-> <<>>, metadata_file |-> <<>>,
     s3_last_modified |-> 0, cached_last_modified |-> -1, last_modified |-> 0,
     range |-> <<>>, dates |-> <<>>, i |-> 0, dfs |-> <<>>,
     result |-> NoResult,
     g_absent |-> FALSE, g_quiet |-> FALSE, g_terr |-> NoExc, g_gf |-> "",
     g_probes |-> 0, g_downloads |-> 0, g_wrote |-> FALSE,
     g_present |-> FALSE, g_after_miss |-> FALSE,
     g_refresh_failed |-> FALSE, g_after_failure |-> FALSE]

----------------------------------------------------------------------------
(* The remote store (boto3 client) *)

\* LastModified of the object under a key, NoObject when the bucket holds none
ObjectMtime(key) == IF key \in DOMAIN remote THEN remote[key] ELSE NoObject

\* head_object: the answers the store can give for a key
HeadObject(key) ==
    {[code |-> tc, mtime |-> 0] : tc \in TransportCodes}
    \cup (IF ObjectMtime(key) = NoObject THEN {[code |-> "404", mtime |-> 0]}
          ELSE {[code |-> "200", mtime |-> ObjectMtime(key)]})

\* a slip for this code, a design for another: a download waits while another caller is
\* between its download to the same local path and its write of the metadata file
DownloadFile_Exclusive(key, local_path) ==
    IF \E c \in DOMAIN cs : cs[c].pc \in {"head_refresh", "write_meta"} /\ cs[c].local_path = local_path
    THEN {}
    ELSE {[code |-> tc, mtime |-> 0] : tc \in TransportCodes}
         \cup (IF ObjectMtime(key) = NoObject THEN {[code |-> "404", mtime |-> 0]}
               ELSE IF DirName(local_path) \notin dirs THEN {[code |-> "ENOENT", mtime |-> 0]}
               ELSE {[code |-> "200", mtime |-> ObjectMtime(key)]})

\* download_file: it asks the store for the object first (ClientError), then writes a
\* temporary file beside the target and renames it (ENOENT when the directory is missing)
DownloadFile(key, local_path) ==
    {[code |-> tc, mtime |-> 0] : tc \in TransportCodes}
    \cup (IF ObjectMtime(key) = NoObject THEN {[code |-> "404", mtime |-> 0]}
          ELSE IF DirName(local_path) \notin dirs THEN {[code |-> "ENOENT", mtime |-> 0]}
          ELSE {[code |-> "200", mtime |-> ObjectMtime(key)]})

\* an external writer puts a new version of the object: its LastModified is later
\* than every earlier one
RemotePutMtime(k) == clock + 1

\* the history of callers and keys after the external writer touched key k
Disturbed(r, k) ==
    [r EXCEPT !.g_quiet = FALSE,
              !.g_absent = IF r.full_path = k THEN FALSE ELSE @,
              !.g_present = IF r.full_path = k THEN FALSE ELSE @,
              !.g_refresh_failed = IF r.full_path = k THEN FALSE ELSE @,
              !.g_after_failure = IF r.full_path = k THEN FALSE ELSE @]

\* the key's last get_file no longer describes the object
Forget(k) == [hist EXCEPT ![k] = NoHist]

RemotePut(k) ==
    /\ cls # "LocalFileSystem"
    /\ clock < MaxTime
    /\ clock' = clock + 1
    /\ remote' = [remote EXCEPT ![k] = RemotePutMtime(k)]
    /\ cs' = [c \in DOMAIN cs |-> Disturbed(cs[c], k)]
    /\ hist' = Forget(k)
    /\ UNCHANGED <<cls, fs, dirs, disk, downloaded>>

RemoteDelete(k) ==
    /\ cls # "LocalFileSystem"
    /\ remote[k] # NoObject
    /\ remote' = [remote EXCEPT ![k] = NoObject]
    /\ cs' = [c \in DOMAIN cs |-> Disturbed(cs[c], k)]
    /\ hist' = Forget(k)
    /\ UNCHANGED <<cls, clock, fs, dirs, disk, downloaded>>

----------------------------------------------------------------------------
(* Paths *)

\* a slip: the separator between the base path and the first segment is left out
CreateFullPath_NoSeparator(path, params) ==
    IF params = <<>> THEN path
    ELSE path \o JoinWith(<<"/">>, params)

\* FileSystem._create_full_path
CreateFullPath(path, params) ==
    IF params = <<>> THEN path
    ELSE path \o <<"/">> \o JoinWith(<<"/">>, params)

\* S3FileSystem.get_file: os.path.join(self.cache_dir, full_path.replace('/', os.sep))
S3FileSystemLocalPath(full_path) == PathJoin(CacheDir, Replace(full_path, "/", OsSep))

\* S3FileCache.get_file: os.path.join(self.cache_dir, s3_key.replace('/', '_'))
S3FileCacheLocalPath(s3_key) == PathJoin(CacheDir, Replace(s3_key, "/", "_"))

\* f"{local_path}.meta"
MetadataFile(local_path) == local_path \o MetaSuffix

\* LocalFileSystem(base_dir="")
BaseDir == <<>>

\* LocalFileSystem.get_file
LocalFileSystemPath(path) == PathJoin(BaseDir, Replace(path, "/", OsSep))

\* os.path.exists
PathExists(p) == p \in DOMAIN fs \/ p \in dirs

----------------------------------------------------------------------------
(* The tabular side: pandas *)

\* a <= b for calendar dates
DateLE(a, b) ==
    \/ a[1] < b[1]
    \/ a[1] = b[1] /\ a[2] < b[2]
    \/ a[1] = b[1] /\ a[2] = b[2] /\ a[3] <= b[3]

IsLeapYear(y) == (y % 4 = 0 /\ y % 100 # 0) \/ y % 400 = 0

DaysInMonth(y, m) ==
    IF m = 2 THEN (IF IsLeapYear(y) THEN 29 ELSE 28)
    ELSE IF m \in {4, 6, 9, 11} THEN 30
    ELSE 31

\* a slip: February always has 28 days
NextDay_NoLeapDay(date) ==
    IF date[3] < (IF date[2] = 2 THEN 28 ELSE DaysInMonth(date[1], date[2]))
    THEN <<date[1], date[2], date[3] + 1>>
    ELSE IF date[2] < 12 THEN <<date[1], date[2] + 1, 1>>
    ELSE <<date[1] + 1, 1, 1>>

\* the day after a calendar date: the step of pd.date_range (freq 'D')
NextDay(date) ==
    IF date[3] < DaysInMonth(date[1], date[2]) THEN <<date[1], date[2], date[3] + 1>>
    ELSE IF date[2] < 12 THEN <<date[1], date[2] + 1, 1>>
    ELSE <<date[1] + 1, 1, 1>>

RECURSIVE DateRange(_, _)
\* pd.date_range(start=start_date, end=end_date): the days from start to end, both included;
\* empty when end is before start
DateRange(start_date, end_date) ==
    IF ~DateLE(start_date, end_date) THEN <<>>
    ELSE <<start_date>> \o DateRange(NextDay(start_date), end_date)

\* pd.read_csv: the rows of the file, in the file's order
ReadCsv(files, local_path) ==
    LET content == files[local_path]
    IN IF content.kind = "blob"
       THEN [n \in 1..RowsPerFile |-> [key |-> content.key, ver |-> content.ver, n |-> n]]
       ELSE <<>>

\* pd.DataFrame()
EmptyFrame == <<>>

RECURSIVE Concat_Reversed(_)
\* a slip: the tables are put together last first
Concat_Reversed(dfs) == IF dfs = <<>> THEN <<>> ELSE Concat_Reversed(Tail(dfs)) \o Head(dfs)

RECURSIVE Concat(_)
\* pd.concat(dfs, ignore_index=True)
Concat(dfs) == IF dfs = <<>> THEN <<>> ELSE Head(dfs) \o Concat(Tail(dfs))

\* a slip: a bare `except:` that catches every error
CatchesNotFound_Any(exc) == TRUE

\* a slip: an except clause for another error, which never catches the not-found one
CatchesNotFound_None(exc) == exc.type = "KeyError"

\* except FileNotFoundError
CatchesNotFound(exc) == exc.type = "FileNotFoundError"

----------------------------------------------------------------------------
(* get_file of the two remote cache classes *)

\* a slip: a strict comparison, which makes equal times stale
IsStillValid_Strict(s3_last_modified, cached_last_modified) == s3_last_modified < cached_last_modified

\* a slip: the comparison the wrong way round
IsStillValid_Reversed(s3_last_modified, cached_last_modified) == s3_last_modified >= cached_last_modified

\* return s3_last_modified <= cached_last_modified
IsStillValid(s3_last_modified, cached_last_modified) == s3_last_modified <= cached_last_modified

\* a slip: the ClientError is re-raised whatever its code
TranslateClientError_Raw(code, full_path) == ClientError(code)

\* except ClientError as e: 404 becomes FileNotFoundError, anything else is re-raised
TranslateClientError(code, full_path) ==
    IF code = "404" THEN NotFoundError(full_path) ELSE ClientError(code)

\* a fresh record for a top-level call
NewCall(op) ==
    [IdleCaller EXCEPT !.op = op, !.g_quiet = (op \in {"get_data_for_dates", "get_data_for_range"})]

\* a slip: the probe is left out when the data file exists
GetFileBegin_NoProbe(r, path, params, full_path, local_path) ==
    [r EXCEPT !.path = path, !.params = params,
              !.full_path = full_path,
              !.local_path = local_path,
              !.metadata_file = MetadataFile(local_path),
              !.s3_last_modified = 0, !.cached_last_modified = -1, !.last_modified = 0,
              !.pc = IF PathExists(local_path) THEN "read_meta" ELSE "download",
              !.g_absent = (ObjectMtime(full_path) = NoObject),
              !.g_present = (ObjectMtime(full_path) # NoObject),
              !.g_gf = "", !.g_probes = 0, !.g_downloads = 0, !.g_wrote = FALSE]

\* get_file up to its first remote step: the paths, and whether the data file exists
GetFileBegin(r, path, params, full_path, local_path) ==
    [r EXCEPT !.path = path, !.params = params,
              !.full_path = full_path,
              !.local_path = local_path,
              !.metadata_file = MetadataFile(local_path),
              !.s3_last_modified = 0, !.cached_last_modified = -1, !.last_modified = 0,
              !.pc = IF PathExists(local_path) THEN "head_valid" ELSE "download",
              !.g_absent = (ObjectMtime(full_path) = NoObject),
              !.g_present = (ObjectMtime(full_path) # NoObject),
              !.g_gf = "", !.g_probes = 0, !.g_downloads = 0, !.g_wrote = FALSE]

\* what the caller of get_file does with its outcome
Complete(r, out, files) ==
    LET r1 == [r EXCEPT !.g_gf = IF out.kind = "return" THEN "return" ELSE out.exc.type,
                        !.g_absent = FALSE,
                        !.g_probes = 0, !.g_downloads = 0, !.g_wrote = FALSE,
                        !.g_present = FALSE, !.g_after_miss = FALSE, !.g_after_failure = FALSE,
                        !.g_refresh_failed = (/\ r.op = "get_file"
                                              /\ out.kind = "raise"
                                              /\ r.pc \in {"download", "head_refresh", "write_meta"}),
                        !.s3_last_modified = 0, !.cached_last_modified = -1, !.last_modified = 0]
    IN CASE r.op = "get_data_for_date" ->
              [r1 EXCEPT !.pc = "idle",
                         !.result = IF out.kind = "return" THEN Returned(ReadCsv(files, out.val))
                                    ELSE IF CatchesNotFound(out.exc) THEN Returned(EmptyFrame)
                                    ELSE out]
         [] r.op \in {"get_data_for_dates", "get_data_for_range"} ->
              IF out.kind = "return"
              THEN [r1 EXCEPT !.pc = "loop", !.i = @ + 1, !.dfs = Append(@, ReadCsv(files, out.val))]
              ELSE IF CatchesNotFound(out.exc)
              THEN [r1 EXCEPT !.pc = "loop", !.i = @ + 1]
              ELSE [r1 EXCEPT !.pc = "idle", !.result = out, !.i = 0, !.dfs = <<>>]
         [] OTHER ->
              [r1 EXCEPT !.pc = "idle", !.result = out]

\* get_file ends with `out`: the caller goes on, and the key's history records the call
\* when it returned, left a metadata file, and the object is still as its last probe saw it
Finish(c, r, out, files) ==
    LET k == r.full_path
        probed == IF r.pc = "write_meta" THEN r.last_modified ELSE r.s3_last_modified
    IN /\ cs' = [cs EXCEPT ![c] = Complete(r, out, files)]
       /\ hist' = [hist EXCEPT ![k] = IF /\ out.kind = "return"
                                          /\ r.metadata_file \in DOMAIN files
                                          /\ probed = ObjectMtime(k)
                                       THEN [fresh |-> TRUE, path |-> out.val, params |-> r.params]
                                       ELSE NoHist]

\* the transport error of a remote step, for the history
TransportRaised(r, code) ==
    IF code \in TransportCodes THEN [r EXCEPT !.g_terr = ClientError(code)] ELSE r

\* history: the call has issued one more head_object
Probed(r) == [r EXCEPT !.g_probes = @ + 1]

\* history: the call has issued one more download_file
Downloading(r) == [r EXCEPT !.g_downloads = @ + 1]

\* history: the caller's last call was a get_file on this key that raised the not-found
\* error, and there is an object under the key now
AfterMiss(r, full_path) ==
    /\ r.op = "get_file"
    /\ r.result = Raised(NotFoundError(full_path))
    /\ ObjectMtime(full_path) # NoObject

\* history: the caller's last call was a get_file on this key that failed in its refresh,
\* and the object has not been touched since
AfterFailure(r, full_path) == r.g_refresh_failed /\ r.full_path = full_path

S3FileSystem_get_file(c) ==
    /\ cls = "S3FileSystem"
    /\ cs[c].pc = "idle"
    /\ \E form \in CallForms :
         LET full_path == CreateFullPath(form[1], form[2])
         IN cs' = [cs EXCEPT ![c] = [GetFileBegin(NewCall("get_file"), form[1], form[2],
                                                  full_path, S3FileSystemLocalPath(full_path))
                                       EXCEPT !.g_after_miss = AfterMiss(cs[c], full_path),
                                              !.g_after_failure = AfterFailure(cs[c], full_path)]]
    /\ UNCHANGED <<cls, clock, remote, fs, dirs, disk, hist, downloaded>>

S3FileCache_get_file(c) ==
    /\ cls = "S3FileCache"
    /\ cs[c].pc = "idle"
    /\ \E form \in CallForms :
         IF form[2] = <<>>
         THEN cs' = [cs EXCEPT ![c] = [GetFileBegin(NewCall("get_file"), form[1], form[2],
                                                    form[1], S3FileCacheLocalPath(form[1]))
                                         EXCEPT !.g_after_miss = AfterMiss(cs[c], form[1]),
                                                !.g_after_failure = AfterFailure(cs[c], form[1])]]
         ELSE \* get_file(self, s3_key) takes one argument
              cs' = [cs EXCEPT ![c] = [NewCall("get_file") EXCEPT !.path = form[1], !.params = form[2],
                                                                  !.result = Raised(TypeError)]]
    /\ UNCHANGED <<cls, clock, remote, fs, dirs, disk, hist, downloaded>>

\* _is_cache_valid: head_object
IsCacheValidHead(c) ==
    /\ cs[c].pc = "head_valid"
    /\ \E resp \in HeadObject(cs[c].full_path) :
         LET r == Probed(TransportRaised(cs[c], resp.code))
         IN IF resp.code = "200"
            THEN /\ cs' = [cs EXCEPT ![c] = [r EXCEPT !.s3_last_modified = resp.mtime, !.pc = "read_meta"]]
                 /\ UNCHANGED hist
            ELSE Finish(c, r, Raised(TranslateClientError(resp.code, r.full_path)), fs)
    /\ UNCHANGED <<cls, clock, remote, fs, dirs, disk, downloaded>>

\* _is_cache_valid: the metadata file, and get_file's branch on the answer
IsCacheValidRead(c) ==
    /\ cs[c].pc = "read_meta"
    /\ LET r == cs[c]
       IN IF r.metadata_file \in DOMAIN fs
          THEN LET content == fs[r.metadata_file]
               IN IF content.kind = "text" /\ IsFloatText(content.text)
                  THEN LET r1 == [r EXCEPT !.cached_last_modified = ParseFloat(content.text)]
                       IN IF IsStillValid(r1.s3_last_modified, r1.cached_last_modified)
                          THEN Finish(c, r1, Returned(r1.local_path), fs)
                          ELSE /\ cs' = [cs EXCEPT ![c] = [r1 EXCEPT !.pc = "download"]]
                               /\ UNCHANGED hist
                  ELSE Finish(c, r, Raised(ValueError), fs)
          ELSE /\ cs' = [cs EXCEPT ![c] = [r EXCEPT !.pc = "download"]]
               /\ UNCHANGED hist
    /\ UNCHANGED <<cls, clock, remote, fs, dirs, disk, downloaded>>

\* _refresh_cache: download_file
RefreshDownload(c) ==
    /\ cs[c].pc = "download"
    /\ \E resp \in DownloadFile(cs[c].full_path, cs[c].local_path) :
         LET r == Downloading(TransportRaised(cs[c], resp.code))
         IN CASE resp.code = "200" ->
                   /\ fs' = Put(fs, r.local_path, Blob(r.full_path, resp.mtime))
                   /\ cs' = [cs EXCEPT ![c] = [r EXCEPT !.pc = "head_refresh", !.g_wrote = TRUE]]
                   /\ downloaded' = downloaded \cup {r.full_path}
                   /\ UNCHANGED hist
              [] resp.code = "ENOENT" ->
                   /\ Finish(c, r, Raised(OSNotFound(r.local_path)), fs)
                   /\ UNCHANGED <<fs, downloaded>>
              [] OTHER ->
                   /\ Finish(c, r, Raised(TranslateClientError(resp.code, r.full_path)), fs)
                   /\ UNCHANGED <<fs, downloaded>>
    /\ UNCHANGED <<cls, clock, remote, dirs, disk>>

\* _refresh_cache: head_object after the download
RefreshHead(c) ==
    /\ cs[c].pc = "head_refresh"
    /\ \E resp \in HeadObject(cs[c].full_path) :
         LET r == Probed(TransportRaised(cs[c], resp.code))
         IN IF resp.code = "200"
            THEN /\ cs' = [cs EXCEPT ![c] = [r EXCEPT !.last_modified = resp.mtime, !.pc = "write_meta"]]
                 /\ UNCHANGED hist
            ELSE Finish(c, r, Raised(TranslateClientError(resp.code, r.full_path)), fs)
    /\ UNCHANGED <<cls, clock, remote, fs, dirs, disk, downloaded>>

\* with open(path, 'w') as f: f.write(text), when it raises OSError: open() failed and
\* the files are as they were, or open() truncated the file and only the first characters
\* of the text (none, some, never all) reached it
FailedWrites(files, path, text) ==
    {files} \cup {Put(files, path, Text(SubSeq(text, 1, n))) : n \in 0..(Len(text) - 1)}

\* _refresh_cache: the metadata file is written, local_path returned
RefreshWriteMeta(c) ==
    /\ cs[c].pc = "write_meta"
    /\ LET r == cs[c]
           files == Put(fs, r.metadata_file, Text(StrFloat(r.last_modified)))
       IN /\ fs' = files
          /\ Finish(c, r, Returned(r.local_path), files)
    /\ UNCHANGED <<cls, clock, remote, dirs, disk, downloaded>>

\* _refresh_cache: the write of the metadata file raises OSError, which is not caught
RefreshWriteMetaFails(c) ==
    /\ cs[c].pc = "write_meta"
    /\ LET r == cs[c]
       IN \E files \in FailedWrites(fs, r.metadata_file, StrFloat(r.last_modified)) :
            /\ fs' = files
            /\ Finish(c, r, Raised(OSWriteError(r.metadata_file)), files)
    /\ UNCHANGED <<cls, clock, remote, dirs, disk, downloaded>>

----------------------------------------------------------------------------
(* modified / created *)

\* S3FileSystem.modified: `fs = S3FileSystem()` lacks the required bucket_name
S3FileSystem_modified(c) ==
    /\ cls = "S3FileSystem"
    /\ cs[c].pc = "idle"
    /\ \E form \in CallForms :
         cs' = [cs EXCEPT ![c] = [NewCall("modified") EXCEPT
                    !.path = form[1], !.params = form[2],
                    !.full_path = CreateFullPath(form[1], form[2]),
                    !.g_absent = (ObjectMtime(CreateFullPath(form[1], form[2])) = NoObject),
                    !.g_present = (ObjectMtime(CreateFullPath(form[1], form[2])) # NoObject),
                    !.result = Raised(TypeError)]]
    /\ UNCHANGED <<cls, clock, remote, fs, dirs, disk, hist, downloaded>>

\* S3FileSystem.created: the same construction
S3FileSystem_created(c) ==
    /\ cls = "S3FileSystem"
    /\ cs[c].pc = "idle"
    /\ \E form \in CallForms :
         cs' = [cs EXCEPT ![c] = [NewCall("created") EXCEPT
                    !.path = form[1], !.params = form[2],
                    !.full_path = CreateFullPath(form[1], form[2]),
                    !.g_absent = (ObjectMtime(CreateFullPath(form[1], form[2])) = NoObject),
                    !.g_present = (ObjectMtime(CreateFullPath(form[1], form[2])) # NoObject),
                    !.result = Raised(TypeError)]]
    /\ UNCHANGED <<cls, clock, remote, fs, dirs, disk, hist, downloaded>>

----------------------------------------------------------------------------
(* LocalFileSystem *)

\* os.path.getmtime / os.path.getctime, as datetime.fromtimestamp
StatTime(path, field) ==
    IF path \in DOMAIN disk THEN Returned(disk[path][field]) ELSE Raised(OSNotFound(path))

\* a LocalFileSystem method called with (path) or (path, *params): the methods take one argument
LocalCall(c, op, form, result) ==
    cs' = [cs EXCEPT ![c] = [NewCall(op) EXCEPT
               !.path = form[1], !.params = form[2],
               !.local_path = IF form[2] = <<>> THEN LocalFileSystemPath(form[1]) ELSE <<>>,
               !.g_absent = (form[2] = <<>> /\ LocalFileSystemPath(form[1]) \notin DOMAIN disk),
               !.result = IF form[2] = <<>> THEN result ELSE Raised(TypeError)]]

LocalFileSystem_get_file(c) ==
    /\ cls = "LocalFileSystem"
    /\ cs[c].pc = "idle"
    /\ \E form \in CallForms : LocalCall(c, "get_file", form, Returned(LocalFileSystemPath(form[1])))
    /\ UNCHANGED <<cls, clock, remote, fs, dirs, disk, hist, downloaded>>

LocalFileSystem_modified(c) ==
    /\ cls = "LocalFileSystem"
    /\ cs[c].pc = "idle"
    /\ \E form \in CallForms : LocalCall(c, "modified", form, StatTime(LocalFileSystemPath(form[1]), "mtime"))
    /\ UNCHANGED <<cls, clock, remote, fs, dirs, disk, hist, downloaded>>

LocalFileSystem_created(c) ==
    /\ cls = "LocalFileSystem"
    /\ cs[c].pc = "idle"
    /\ \E form \in CallForms : LocalCall(c, "created", form, StatTime(LocalFileSystemPath(form[1]), "ctime"))
    /\ UNCHANGED <<cls, clock, remote, fs, dirs, disk, hist, downloaded>>

\* another program writes a file under base_dir
DiskWrite(k) ==
    /\ cls = "LocalFileSystem"
    /\ clock < MaxTime
    /\ clock' = clock + 1
    /\ disk' = Put(disk, LocalFileSystemPath(k), [mtime |-> clock + 1, ctime |-> clock + 1])
    /\ UNCHANGED <<cls, remote, fs, dirs, cs, hist, downloaded>>

\* another program removes a file under base_dir
DiskRemove(k) ==
    /\ cls = "LocalFileSystem"
    /\ LocalFileSystemPath(k) \in DOMAIN disk
    /\ disk' = [p \in (DOMAIN disk) \ {LocalFileSystemPath(k)} |-> disk[p]]
    /\ UNCHANGED <<cls, clock, remote, fs, dirs, cs, hist, downloaded>>

----------------------------------------------------------------------------
(* CachedCSVDataStream, over its S3FileCache *)

get_data_for_date(c) ==
    /\ cls = "S3FileCache"
    /\ cs[c].pc = "idle"
    /\ \E date \in Dates :
         LET s3_key == BuildS3Key(date)
         IN cs' = [cs EXCEPT ![c] = GetFileBegin([NewCall("get_data_for_date") EXCEPT !.dates = <<date>>],
                                                 s3_key, <<>>, s3_key, S3FileCacheLocalPath(s3_key))]
    /\ UNCHANGED <<cls, clock, remote, fs, dirs, disk, hist, downloaded>>

get_data_for_dates(c) ==
    /\ cls = "S3FileCache"
    /\ cs[c].pc = "idle"
    /\ \E dates \in DateLists :
         cs' = [cs EXCEPT ![c] = [NewCall("get_data_for_dates") EXCEPT !.dates = dates, !.i = 1, !.pc = "loop"]]
    /\ UNCHANGED <<cls, clock, remote, fs, dirs, disk, hist, downloaded>>

get_data_for_range(c) ==
    /\ cls = "S3FileCache"
    /\ cs[c].pc = "idle"
    /\ \E range \in DateRanges :
         cs' = [cs EXCEPT ![c] = [NewCall("get_data_for_range") EXCEPT
                    !.range = range, !.dates = DateRange(range[1], range[2]), !.i = 1, !.pc = "loop"]]
    /\ UNCHANGED <<cls, clock, remote, fs, dirs, disk, hist, downloaded>>

\* _load_multiple_files: the next date of the loop, or the concatenation after the last
LoadMultipleFilesNext(c) ==
    /\ cs[c].pc = "loop"
    /\ LET r == cs[c]
       IN IF r.i <= Len(r.dates)
          THEN LET s3_key == BuildS3Key(r.dates[r.i])
               IN cs' = [cs EXCEPT ![c] = GetFileBegin(r, s3_key, <<>>, s3_key, S3FileCacheLocalPath(s3_key))]
          ELSE cs' = [cs EXCEPT ![c] = [r EXCEPT !.pc = "idle", !.i = 0, !.dfs = <<>>,
                                                 !.result = Returned(IF r.dfs # <<>> THEN Concat(r.dfs)
                                                                     ELSE EmptyFrame)]]
    /\ UNCHANGED <<cls, clock, remote, fs, dirs, disk, hist, downloaded>>

----------------------------------------------------------------------------
(* The system *)

\* the local data path of a key in a class of remote cache
ClassLocalPathOf(class, k) ==
    IF class = "S3FileSystem" THEN S3FileSystemLocalPath(k) ELSE S3FileCacheLocalPath(k)

Classes == {"S3FileSystem", "S3FileCache", "LocalFileSystem"}

\* the directory of the keys' files under cache_dir, for S3FileSystem
KeyDirs == {DirName(S3FileSystemLocalPath(k)) : k \in Keys}

\* after construction: os.makedirs(cache_dir, exist_ok=True) on an empty cache; the
\* directories below cache_dir are there only when somebody made them
InitOf(active) ==
    /\ cls \in Classes
    /\ clock = 1
    /\ remote \in [ObjectKeys -> {NoObject, 1}]
    /\ fs = <<>>
    /\ dirs \in (IF cls = "S3FileSystem" THEN {{CacheDir}, {CacheDir} \cup KeyDirs}
                 ELSE IF cls = "S3FileCache" THEN {{CacheDir}} ELSE {{}})
    /\ disk = <<>>
    /\ cs = [c \in active |-> IdleCaller]
    /\ hist = [k \in Keys |-> NoHist]
    /\ downloaded = {}

Init == InitOf({"c1"})

Next ==
    \/ \E k \in ObjectKeys : RemotePut(k)
    \/ \E k \in ObjectKeys : RemoteDelete(k)
    \/ \E k \in ObjectKeys : DiskWrite(k)
    \/ \E k \in ObjectKeys : DiskRemove(k)
    \/ \E c \in DOMAIN cs : S3FileSystem_get_file(c)
    \/ \E c \in DOMAIN cs : S3FileCache_get_file(c)
    \/ \E c \in DOMAIN cs : IsCacheValidHead(c)
    \/ \E c \in DOMAIN cs : IsCacheValidRead(c)
    \/ \E c \in DOMAIN cs : RefreshDownload(c)
    \/ \E c \in DOMAIN cs : RefreshHead(c)
    \/ \E c \in DOMAIN cs : RefreshWriteMeta(c)
    \/ \E c \in DOMAIN cs : S3FileSystem_modified(c)
    \/ \E c \in DOMAIN cs : S3FileSystem_created(c)
    \/ \E c \in DOMAIN cs : LocalFileSystem_get_file(c)
    \/ \E c \in DOMAIN cs : LocalFileSystem_modified(c)
    \/ \E c \in DOMAIN cs : LocalFileSystem_created(c)
    \/ \E c \in DOMAIN cs : get_data_for_date(c)
    \/ \E c \in DOMAIN cs : get_data_for_dates(c)
    \/ \E c \in DOMAIN cs : get_data_for_range(c)
    \/ \E c \in DOMAIN cs : LoadMultipleFilesNext(c)

\* the system on a disk that takes every write of the cache
Spec == Init /\ [][Next]_vars

\* two threads of one program share a handle and ask for the same key
Callers == {"c1", "c2"}

\* the key of the specifications that follow a single key
OneKey == BuildS3Key(<<2024, 2, 28>>)

InitRace ==
    /\ InitOf(Callers)
    /\ cls \in {"S3FileSystem", "S3FileCache"}
    /\ DirName(ClassLocalPathOf(cls, OneKey)) \in dirs
    /\ \A k \in ObjectKeys \ {OneKey} : remote[k] = NoObject

NextRace ==
    \/ RemotePut(OneKey)
    \/ RemoteDelete(OneKey)
    \/ \E c \in Callers : S3FileSystem_get_file(c) /\ cs'[c].full_path = OneKey
    \/ \E c \in Callers : S3FileCache_get_file(c) /\ cs'[c].full_path = OneKey
    \/ \E c \in Callers : IsCacheValidHead(c)
    \/ \E c \in Callers : IsCacheValidRead(c)
    \/ \E c \in Callers : RefreshDownload(c)
    \/ \E c \in Callers : RefreshHead(c)
    \/ \E c \in Callers : RefreshWriteMeta(c)

SpecRace == InitRace /\ [][NextRace]_vars

\* one caller and one key, on a disk that may refuse the write of the metadata file
InitDisk ==
    /\ InitOf({"c1"})
    /\ cls \in {"S3FileSystem", "S3FileCache"}
    /\ \A k \in ObjectKeys \ {OneKey} : remote[k] = NoObject

NextDisk ==
    \/ RemotePut(OneKey)
    \/ RemoteDelete(OneKey)
    \/ \E c \in DOMAIN cs : S3FileSystem_get_file(c) /\ cs'[c].full_path = OneKey
    \/ \E c \in DOMAIN cs : S3FileCache_get_file(c) /\ cs'[c].full_path = OneKey
    \/ \E c \in DOMAIN cs : IsCacheValidHead(c)
    \/ \E c \in DOMAIN cs : IsCacheValidRead(c)
    \/ \E c \in DOMAIN cs : RefreshDownload(c)
    \/ \E c \in DOMAIN cs : RefreshHead(c)
    \/ \E c \in DOMAIN cs : RefreshWriteMeta(c)
    \/ \E c \in DOMAIN cs : RefreshWriteMetaFails(c)

SpecDisk == InitDisk /\ [][NextDisk]_vars

\* the characters of the keys whose paths are compared
KeyChars == {"a", "/", "_"}

\* keys as a bucket may hold them: no '/' at either end, no empty segment
PlainKeys ==
    {k \in UNION {[1..n -> KeyChars] : n \in 1..MaxKeyLen} :
        /\ k[1] # "/" /\ k[Len(k)] # "/"
        /\ \A i \in 1..(Len(k) - 1) : ~(k[i] = "/" /\ k[i + 1] = "/")}

\* a bucket may also hold keys that end in ".meta"
AnyKeys == PlainKeys \cup {k \o MetaSuffix : k \in PlainKeys}

\* two get_file calls of one handle, each with a key of its own
InitPaths ==
    /\ cls \in {"S3FileSystem", "S3FileCache"}
    /\ clock = 1
    /\ remote = [k \in ObjectKeys |-> NoObject]
    /\ fs = <<>>
    /\ dirs = {CacheDir}
    /\ disk = <<>>
    /\ cs \in {[c \in Callers |-> [NewCall("get_file") EXCEPT !.path = ks[c]]] : ks \in [Callers -> AnyKeys]}
    /\ hist = [k \in Keys |-> NoHist]
    /\ downloaded = {}

\* get_file, its first three statements: full_path, local_path, metadata_file
MapKey(c) ==
    /\ cs[c].pc = "idle"
    /\ cs[c].local_path = <<>>
    /\ LET full_path == CreateFullPath(cs[c].path, cs[c].params)
           local_path == ClassLocalPathOf(cls, full_path)
       IN cs' = [cs EXCEPT ![c] = [@ EXCEPT !.full_path = full_path,
                                            !.local_path = local_path,
                                            !.metadata_file = MetadataFile(local_path)]]
    /\ UNCHANGED <<cls, clock, remote, fs, dirs, disk, hist, downloaded>>

NextPaths == \E c \in Callers : MapKey(c)

SpecPaths == InitPaths /\ [][NextPaths]_vars

----------------------------------------------------------------------------
(* Properties *)

\* the caller is inside get_file (called directly or by the stream)
InGetFile(c) == cs[c].pc \in {"head_valid", "read_meta", "download", "head_refresh", "write_meta"}

\* the caller's get_file has reached _refresh_cache: a download is about to be or has been issued
InRefresh(c) == cs[c].pc \in {"download", "head_refresh", "write_meta"}

\* the step ends the caller's get_file
GetFileEnds(c) == InGetFile(c) /\ ~InGetFile(c)'

\* the step begins a get_file of the caller
GetFileBegins(c) == ~InGetFile(c) /\ InGetFile(c)'

\* the step ends the caller's get_file by returning local_path
GetFileReturns(c) == GetFileEnds(c) /\ cs'[c].g_gf = "return"

\* the value of an existing metadata file
MetaValue(path) == ParseFloat(fs[path].text)

C1_Hit ==
    \A c \in DOMAIN cs :
        InGetFile(c) /\ hist[cs[c].full_path].fresh => ~InRefresh(c)

C1_SamePath ==
    \A c \in DOMAIN cs :
        GetFileEnds(c) /\ hist[cs[c].full_path].fresh =>
            \/ /\ cs'[c].g_gf = "return"
               /\ hist'[cs[c].full_path].fresh
               /\ hist'[cs[c].full_path].path = hist[cs[c].full_path].path
            \/ /\ cs'[c].g_gf = "ClientError"
               /\ cs'[c].g_terr # NoExc

\* C1: single caller; once a get_file on a key has returned leaving a metadata file, and
\* while the remote object stays as that call last saw it, the next get_file on that key never enters
\* the refresh (it issues no download) and returns the same local path as the call
\* before; the only other way it can end is the transport error of its one probe.
C1_IdempotentHit == [](C1_Hit) /\ [][C1_SamePath]_vars

\* a second get_file on a key has probed an unchanged object and is about to hit
C1_Witness ==
    \E c \in DOMAIN cs :
        /\ cs[c].op = "get_file"
        /\ cs[c].pc = "read_meta"
        /\ hist[cs[c].full_path].fresh
        /\ cs[c].full_path \in downloaded
        /\ cs[c].s3_last_modified = MetaValue(cs[c].metadata_file)

\* C2 (as claimed): when a get_file that downloaded returns, the metadata file holds the
\* modification time of the version that is in the data file.
C2_MetaIsDownloadTime ==
    [][\A c \in DOMAIN cs :
          cs[c].pc = "write_meta" /\ GetFileReturns(c) =>
              MetaValue(cs[c].metadata_file)' = fs'[cs[c].local_path].ver]_vars

C3_NeverPastFirstStep ==
    \A c \in DOMAIN cs :
        InGetFile(c) /\ cs[c].g_absent => cs[c].pc \in {"head_valid", "download"}

C3_Raises ==
    \A c \in DOMAIN cs :
        GetFileEnds(c) /\ cs[c].g_absent =>
            /\ cs'[c].g_gf # "return"
            /\ cs[c].op = "get_file" =>
                 /\ cs'[c].result.kind = "raise"
                 /\ \/ cs'[c].result.exc = NotFoundError(cs[c].full_path)
                    \/ /\ cs'[c].g_terr # NoExc
                       /\ cs'[c].result.exc = cs'[c].g_terr

\* C3: a get_file on a key that has no remote object from the call's start to its end
\* never gets past its first remote step and never returns a path: it raises
\* NotFoundError for the key, whether the data file is missing (the download meets the
\* 404) or present, with or without metadata (the probe meets it), unless that remote
\* step itself fails with a transport error, which is then what is raised.
C3_NotFoundInEveryCacheState == [](C3_NeverPastFirstStep) /\ [][C3_Raises]_vars

\* get_file has raised NotFoundError for a key whose data file and metadata file are cached
C3_Witness ==
    \E c \in DOMAIN cs :
        /\ cs[c].op = "get_file"
        /\ cs[c].pc = "idle"
        /\ cs[c].result = Raised(NotFoundError(cs[c].full_path))
        /\ cs[c].local_path \in DOMAIN fs
        /\ cs[c].metadata_file \in DOMAIN fs

\* C4 (as claimed): in both adapters, modified and created on a path whose resource does
\* not exist end in NotFoundError.
C4_StatOfMissingIsNotFound ==
    \A c \in DOMAIN cs :
        /\ cs[c].pc = "idle"
        /\ cs[c].op \in {"modified", "created"}
        /\ cs[c].g_absent
        => /\ cs[c].result.kind = "raise"
           /\ cs[c].result.exc.type = "FileNotFoundError"

\* path/s1/.../sn, written out
JoinedKey(path, params) == JoinWith(<<"/">>, <<path>> \o params)

\* base paths and segment lists beyond those the callers of the model pass
MoreBases == {<<"a">>, <<"a", "/", "b">>}

MoreSegments == {<<"x">>, <<"y", "_", "z">>}

MoreParams == {<<s>> : s \in MoreSegments} \cup {<<s, t>> : s, t \in MoreSegments}

\* the two call forms of a base path and segments lead to one key and one pair of files
FormsAgree(path, params) ==
    LET split == CreateFullPath(path, params)
        whole == CreateFullPath(JoinedKey(path, params), <<>>)
    IN /\ split = whole
       /\ whole = JoinedKey(path, params)
       /\ S3FileSystemLocalPath(split) = S3FileSystemLocalPath(whole)
       /\ MetadataFile(S3FileSystemLocalPath(split)) = MetadataFile(S3FileSystemLocalPath(whole))

\* C5: S3FileSystem.get_file(base, s1..sn) works on the remote key, the data path and the
\* metadata path that get_file("base/s1/.../sn") works on, and a call in one form finds
\* the entry left by a call in the other form: it does not download and keeps the path.
C5_CallFormsAgree ==
    /\ \A path \in MoreBases, params \in MoreParams : FormsAgree(path, params)
    /\ \A c \in DOMAIN cs :
        cls = "S3FileSystem" /\ cs[c].op = "get_file" /\ cs[c].params # <<>> =>
            LET joined == JoinedKey(cs[c].path, cs[c].params)
                whole == CreateFullPath(joined, <<>>)
            IN /\ cs[c].full_path = joined
               /\ whole = joined
               /\ cs[c].local_path = S3FileSystemLocalPath(whole)
               /\ cs[c].metadata_file = MetadataFile(S3FileSystemLocalPath(whole))
               /\ InGetFile(c) /\ hist[joined].fresh /\ hist[joined].params = <<>> =>
                    /\ ~InRefresh(c)
                    /\ cs[c].local_path = hist[joined].path

\* a call with segments has probed the entry that a call with the whole key left
C5_Witness ==
    \E c \in DOMAIN cs :
        /\ cls = "S3FileSystem"
        /\ cs[c].op = "get_file"
        /\ cs[c].params # <<>>
        /\ cs[c].pc = "read_meta"
        /\ hist[cs[c].full_path].fresh
        /\ hist[cs[c].full_path].params = <<>>

C6_Begin ==
    \A c \in DOMAIN cs :
        GetFileBegins(c) =>
            /\ cs'[c].pc = "download" <=> ~PathExists(cs'[c].local_path)
            /\ cs'[c].pc = "head_valid" <=> PathExists(cs'[c].local_path)

C6_Probe ==
    \A c \in DOMAIN cs :
        cs[c].pc = "head_valid" /\ cs'[c].pc = "read_meta" =>
            /\ cs[c].local_path \in DOMAIN fs
            /\ ObjectMtime(cs[c].full_path) # NoObject
            /\ cs'[c].s3_last_modified = ObjectMtime(cs[c].full_path)

C6_Decide ==
    \A c \in DOMAIN cs :
        cs[c].pc = "read_meta" /\ cs'[c].pc # "read_meta" =>
            LET stale == \/ cs[c].metadata_file \notin DOMAIN fs
                         \/ cs[c].s3_last_modified > MetaValue(cs[c].metadata_file)
            IN /\ cs'[c].pc = "download" <=> stale
               /\ GetFileReturns(c) <=> ~stale

\* C6: with the data file present and the probe answered, get_file downloads exactly when
\* the metadata file is absent or the probed time is later than the recorded one: equal
\* times are a hit, a missing metadata file is a miss.  With the data file absent
\* get_file goes to the download without a probe.
C6_DownloadIffStale == [][C6_Begin /\ C6_Probe /\ C6_Decide]_vars

\* the probe has answered the very time the metadata file records: the hit by equality
C6_Witness ==
    \E c \in DOMAIN cs :
        /\ cs[c].pc = "read_meta"
        /\ cs[c].metadata_file \in DOMAIN fs
        /\ cs[c].s3_last_modified = MetaValue(cs[c].metadata_file)

\* the data path and the metadata path of a key in the handle's class
ClassLocalPath(k) == IF cls = "S3FileSystem" THEN S3FileSystemLocalPath(k) ELSE S3FileCacheLocalPath(k)

\* C7 (as claimed): whenever no call is in progress, a key's metadata file exists if and
\* only if a download of its data file has succeeded at least once.
C7_MetaIffDownloaded ==
    (\A c \in DOMAIN cs : cs[c].pc = "idle") =>
        \A k \in Keys : MetadataFile(ClassLocalPath(k)) \in DOMAIN fs <=> k \in downloaded

\* C8: a transport error of any remote step (the probe, the download, the probe after the
\* download) ends the call it happens in, and that call, get_file or the stream's
\* get_data_for_date / get_data_for_dates around it, raises that very error.
C8_TransportErrorPropagates ==
    \A c \in DOMAIN cs :
        cs[c].g_terr # NoExc =>
            /\ cs[c].pc = "idle"
            /\ cs[c].g_gf = "ClientError"
            /\ cs[c].result = Raised(cs[c].g_terr)
            /\ cs[c].g_terr.code \in TransportCodes

\* get_data_for_dates has been ended by a transport error
C8_Witness ==
    \E c \in DOMAIN cs :
        /\ cs[c].op = "get_data_for_dates"
        /\ cs[c].pc = "idle"
        /\ Len(cs[c].dates) > 1
        /\ cs[c].g_terr # NoExc
        /\ cs[c].result.kind = "raise"

\* the rows of the object cached for a date, in the file's order
CachedTable(date) ==
    LET k == BuildS3Key(date)
    IN [n \in 1..RowsPerFile |-> [key |-> k, ver |-> fs[S3FileCacheLocalPath(k)].ver, n |-> n]]

RECURSIVE TablesInOrder(_)
\* the tables of the dates whose object exists, one after the other in the order of the dates
TablesInOrder(dates) ==
    IF dates = <<>> THEN <<>>
    ELSE (IF ObjectMtime(BuildS3Key(Head(dates))) # NoObject THEN CachedTable(Head(dates)) ELSE <<>>)
         \o TablesInOrder(Tail(dates))

\* C9: with the bucket left alone during the call, get_data_for_dates(dates) returns the
\* tables of the dates whose object exists, concatenated in the order of dates, each
\* table's rows in their order, the other dates skipped; that is the empty table when no
\* date resolves or dates is empty.  It raises only the transport error of a remote step.
C9_ConcatInOrder ==
    \A c \in DOMAIN cs :
        cs[c].op = "get_data_for_dates" /\ cs[c].pc = "idle" /\ cs[c].g_quiet =>
            IF cs[c].g_terr = NoExc
            THEN cs[c].result = Returned(TablesInOrder(cs[c].dates))
            ELSE cs[c].result = Raised(cs[c].g_terr)

\* three dates were asked, the middle one has no object, and the table of the first and
\* the third came back
C9_Witness ==
    \E c \in DOMAIN cs :
        /\ cs[c].op = "get_data_for_dates"
        /\ cs[c].pc = "idle"
        /\ cs[c].g_quiet
        /\ Len(cs[c].dates) = 3
        /\ cs[c].result.kind = "return"
        /\ Len(cs[c].result.val) = 2 * RowsPerFile
        /\ cs[c].result.val[1].key # cs[c].result.val[Len(cs[c].result.val)].key

\* C10: get_data_for_date returns the empty table, and raises nothing, when its get_file
\* raises NotFoundError, with the key never cached and with the key cached and its object
\* gone.
C10_MissingDateIsEmpty ==
    \A c \in DOMAIN cs :
        cs[c].op = "get_data_for_date" /\ cs[c].pc = "idle" /\ cs[c].g_gf = "FileNotFoundError" =>
            cs[c].result = Returned(EmptyFrame)

\* the date's file is cached, its object is gone, and the empty table came back
C10_Witness ==
    \E c \in DOMAIN cs :
        /\ cs[c].op = "get_data_for_date"
        /\ cs[c].pc = "idle"
        /\ cs[c].g_gf = "FileNotFoundError"
        /\ cs[c].local_path \in DOMAIN fs
        /\ cs[c].metadata_file \in DOMAIN fs
        /\ cs[c].result = Returned(EmptyFrame)

\* the calendar around the dates of the model, day by day
Calendar ==
    << <<2024, 2, 27>>, <<2024, 2, 28>>, <<2024, 2, 29>>, <<2024, 3, 1>>, <<2024, 3, 2>> >>

CalendarIndex(date) == CHOOSE n \in 1..Len(Calendar) : Calendar[n] = date

\* the days of the calendar from start to end, both included, in ascending order
DaysBetween(start_date, end_date) ==
    SubSeq(Calendar, CalendarIndex(start_date), CalendarIndex(end_date))

\* the dates of a list whose object exists
PresentDates(dates) == {n \in 1..Len(dates) : ObjectMtime(BuildS3Key(dates[n])) # NoObject}

C11_Enumerates ==
    \A c \in DOMAIN cs :
        cs[c].op = "get_data_for_range" =>
            cs[c].dates = DaysBetween(cs[c].range[1], cs[c].range[2])

C11_RequestsInOrder ==
    \A c \in DOMAIN cs :
        cs[c].op = "get_data_for_range" /\ cs[c].pc # "idle" =>
            /\ GetFileBegins(c) =>
                  /\ cs[c].i \in 1..Len(cs[c].dates)
                  /\ cs'[c].i = cs[c].i
                  /\ cs'[c].full_path = BuildS3Key(cs[c].dates[cs[c].i])
            /\ GetFileEnds(c) => cs'[c].i = cs[c].i + 1 \/ cs'[c].result.kind = "raise"
            /\ cs[c].pc = "loop" /\ cs'[c].pc = "idle" /\ cs'[c].result.kind = "return" =>
                  cs[c].i = Len(cs[c].dates) + 1

C11_SameAsDates ==
    \A c \in DOMAIN cs :
        cs[c].op = "get_data_for_range" /\ cs[c].pc = "idle" /\ cs[c].g_quiet =>
            IF cs[c].g_terr = NoExc
            THEN /\ cs[c].result = Returned(TablesInOrder(DaysBetween(cs[c].range[1], cs[c].range[2])))
                 /\ \A n \in PresentDates(cs[c].dates) :
                      PresentDates(cs[c].dates) = {n} =>
                          cs[c].result = Returned(ReadCsv(fs, S3FileCacheLocalPath(BuildS3Key(cs[c].dates[n]))))
            ELSE cs[c].result = Raised(cs[c].g_terr)

\* C11: get_data_for_range(start, end) asks get_file for every calendar day from start to
\* end, both included, once each and in ascending order (no day when end is before start),
\* and, with the bucket left alone during the call, returns the table get_data_for_dates
\* returns for those days; when one day only has an object, that is the table
\* get_data_for_date reads for that day.
C11_RangeEnumeratesDays == [](C11_Enumerates /\ C11_SameAsDates) /\ [][C11_RequestsInOrder]_vars

\* the range over the leap day came back with the table of its one present day, the first
C11_Witness ==
    \E c \in DOMAIN cs :
        /\ cs[c].op = "get_data_for_range"
        /\ cs[c].pc = "idle"
        /\ cs[c].g_quiet
        /\ Len(cs[c].dates) = 3
        /\ PresentDates(cs[c].dates) = {1}
        /\ cs[c].result.kind = "return"
        /\ Len(cs[c].result.val) = RowsPerFile

C12_OneProbeNoDownload ==
    \A c \in DOMAIN cs :
        cs[c].pc = "read_meta" /\ GetFileReturns(c) =>
            /\ cs[c].g_probes = 1
            /\ cs[c].g_downloads = 0
            /\ ~cs[c].g_wrote
            /\ cs'[c].g_gf = "return"

C12_Frame ==
    \A c \in DOMAIN cs :
        /\ GetFileBegins(c) \/ cs[c].pc \in {"head_valid", "read_meta"}
        /\ cs'[c].pc # cs[c].pc
        => /\ fs' = fs
           /\ dirs' = dirs

\* C12: a get_file that returns as a cache hit (from the comparison of the probed time
\* with the recorded one) has issued exactly one head_object and no download_file, and
\* none of its steps, from its start to the return, changes any file of the cache
\* directory: the key's data and metadata files and the files of the other keys stay.
C12_HitOneProbeNoDownload == [][C12_OneProbeNoDownload /\ C12_Frame]_vars

\* a call on a cached key has issued its one probe and will return as a hit, while the
\* cache holds files of another key too
C12_Witness ==
    \E c \in DOMAIN cs :
        /\ cs[c].pc = "read_meta"
        /\ cs[c].g_probes = 1
        /\ cs[c].metadata_file \in DOMAIN fs
        /\ IsStillValid(cs[c].s3_last_modified, MetaValue(cs[c].metadata_file))
        /\ \E p \in DOMAIN fs : p \notin {cs[c].local_path, cs[c].metadata_file}

C13_MissWritesNothing ==
    \A c \in DOMAIN cs :
        /\ GetFileEnds(c)
        /\ cs[c].op = "get_file"
        /\ cs'[c].result = Raised(NotFoundError(cs[c].full_path))
        => ~cs[c].g_wrote /\ fs' = fs

C13_MissIsNotRemembered ==
    \A c \in DOMAIN cs :
        GetFileEnds(c) /\ cs[c].g_after_miss /\ cs[c].g_present =>
            \/ cs'[c].result = Returned(cs[c].local_path)
            \/ cs'[c].g_terr # NoExc /\ cs'[c].result = Raised(cs'[c].g_terr)

\* C13 (as claimed): a get_file that raises NotFoundError has written no file of the cache,
\* and the get_file that follows it on the key, once an object has been put under the key
\* and while that object stays, returns the local path (or raises the transport error of
\* one of its remote steps).
C13_NoNegativeCaching == [][C13_MissWritesNothing /\ C13_MissIsNotRemembered]_vars

\* C14 (as claimed): whenever a get_file is about to download, the directory of the key's
\* local path exists, also for a key with '/' separators on a cache directory that has
\* just been created; and a get_file that has ended on a key whose object was there all
\* along has not failed on the local path.
C14_ParentDirExists ==
    \A c \in DOMAIN cs :
        /\ cs[c].pc = "download" => DirName(cs[c].local_path) \in dirs
        /\ cs[c].op = "get_file" /\ cs[c].pc = "idle" /\ cs[c].result.kind = "raise" =>
              cs[c].result.exc # OSNotFound(cs[c].local_path)

\* what a LocalFileSystem operation gives for a single path, on the disk as it is
LocalOutcome(op, path) ==
    CASE op = "get_file" -> Returned(LocalFileSystemPath(path))
      [] op = "modified" -> StatTime(LocalFileSystemPath(path), "mtime")
      [] op = "created" -> StatTime(LocalFileSystemPath(path), "ctime")

\* C15 (as claimed): get_file, modified and created called with a base path and segments
\* do what they do for the one path "base/s1/.../sn": S3FileSystem works on that key, and
\* LocalFileSystem gives the outcome of the single-path call on the same disk.
C15_SegmentsAccepted ==
    [][\A c \in DOMAIN cs :
          /\ cs[c].pc = "idle"
          /\ <<cs'[c].op, cs'[c].path, cs'[c].params, cs'[c].pc, cs'[c].result>>
                # <<cs[c].op, cs[c].path, cs[c].params, cs[c].pc, cs[c].result>>
          /\ cs'[c].op \in {"get_file", "modified", "created"}
          /\ cs'[c].params # <<>>
          => LET joined == JoinedKey(cs'[c].path, cs'[c].params)
             IN /\ cls = "S3FileSystem" => cs'[c].full_path = joined
                /\ cls = "LocalFileSystem" => cs'[c].result = LocalOutcome(cs'[c].op, joined)]_vars

\* C16 (as claimed): S3FileSystem.modified and created on a key whose object exists, and
\* stays as it is, return the object's modification time (created the same value as
\* modified), and the files of the cache are as they were.
C16_StatOfRemoteObject ==
    \A c \in DOMAIN cs :
        /\ cls = "S3FileSystem"
        /\ cs[c].op \in {"modified", "created"}
        /\ cs[c].pc = "idle"
        /\ cs[c].g_present
        => cs[c].result = Returned(ObjectMtime(cs[c].full_path))

\* the caller has downloaded to local_path and has not yet written the metadata file
MidRefresh(c) == cs[c].pc \in {"head_refresh", "write_meta"}

\* the step the caller is at can be taken
CanStep(c) ==
    CASE cs[c].pc = "head_valid" -> ENABLED IsCacheValidHead(c)
      [] cs[c].pc = "read_meta" -> ENABLED IsCacheValidRead(c)
      [] cs[c].pc = "download" -> ENABLED RefreshDownload(c)
      [] cs[c].pc = "head_refresh" -> ENABLED RefreshHead(c)
      [] cs[c].pc = "write_meta" -> ENABLED RefreshWriteMeta(c)
      [] OTHER -> TRUE

\* C17: with two callers in get_file on the same key, no step of a caller waits for the
\* other: in particular a caller at its download can take it while the other is between
\* its own download to the same local path and its write of the same metadata file.  (The
\* state in which both are there is the witness.)
C17_NoExclusion ==
    \A c \in DOMAIN cs :
        /\ CanStep(c)
        /\ \A d \in DOMAIN cs \ {c} :
              InGetFile(c) /\ InGetFile(d) /\ cs[c].full_path = cs[d].full_path =>
                  /\ cs[c].local_path = cs[d].local_path
                  /\ cs[c].metadata_file = cs[d].metadata_file

\* both callers found the same entry stale, and both have downloaded to the shared local
\* path and not yet written the shared metadata file
C17_Witness ==
    \E c, d \in DOMAIN cs :
        /\ c # d
        /\ MidRefresh(c) /\ MidRefresh(d)
        /\ cs[c].local_path = cs[d].local_path
        /\ cs[c].metadata_file = cs[d].metadata_file
        /\ cs[c].cached_last_modified >= 0 /\ cs[c].s3_last_modified > cs[c].cached_last_modified
        /\ cs[d].cached_last_modified >= 0 /\ cs[d].s3_last_modified > cs[d].cached_last_modified

\* C18 (as claimed): when a get_file returns and the object was there, untouched, from the
\* call's start to its end, the data file at the returned path holds the object's current
\* version, whatever earlier calls met.
C18_ReturnsCurrentVersion ==
    [][\A c \in DOMAIN cs :
          GetFileReturns(c) /\ cs[c].g_present =>
              /\ cs[c].local_path \in DOMAIN fs'
              /\ fs'[cs[c].local_path] = Blob(cs[c].full_path, ObjectMtime(cs[c].full_path))]_vars

\* C19 (as claimed): the get_file that follows, on the same key and with the object
\* untouched, a get_file that failed in its refresh (at the download, at the probe after
\* it, or at the write of the metadata file) issues a download again (or ends with the
\* transport error of a remote step, or with NotFoundError when there is no object): it
\* never returns as a cache hit.
C19_FailedRefreshNeverValid ==
    [][\A c \in DOMAIN cs :
          GetFileEnds(c) /\ cs[c].g_after_failure =>
              \/ cs[c].g_downloads >= 1 \/ cs[c].pc = "download"
              \/ /\ cs[c].g_absent
                 /\ cs'[c].g_gf = "FileNotFoundError"
              \/ /\ cs'[c].g_terr # NoExc
                 /\ cs'[c].result = Raised(cs'[c].g_terr)]_vars

\* C20 (as claimed): two distinct keys never have the same data path or the same metadata
\* path, and the data path of one is never the metadata path of the other, in
\* S3FileSystem and in S3FileCache.
C20_PathsInjective ==
    \A c, d \in DOMAIN cs :
        /\ cs[c].local_path # <<>> /\ cs[d].local_path # <<>>
        /\ cs[c].full_path # cs[d].full_path
        => /\ cs[c].local_path # cs[d].local_path
           /\ cs[c].metadata_file # cs[d].metadata_file
           /\ cs[c].local_path # cs[d].metadata_file

====
